---- MODULE Spec2Model ----
(***************************************************************************)
(* Visit tracking over one SQLite table (backend/analytics.py).            *)
(*                                                                         *)
(* The table page_visits is the sequence `rows`, kept in rowid order, and  *)
(* `seq` is the AUTOINCREMENT counter SQLite keeps in sqlite_sequence.     *)
(* The three handlers are `async def` without an await, so inside one      *)
(* process each runs to completion: track_visit, get_stats and             *)
(* reset_analytics are one action each.  Several processes share the file; *)
(* there get_stats is seven separate autocommit SELECTs, and the           *)
(* specification SpecConc takes them one step at a time.                   *)
(***************************************************************************)
EXTENDS Integers, Sequences, FiniteSets, TLC

VARIABLES
    rows,       \* table page_visits, in rowid order
    seq,        \* sqlite_sequence: the largest id AUTOINCREMENT has handed out
    clock,      \* what datetime.utcnow() returns, in slots
    req,        \* the request handled last, with what it read from the clock
    resp,       \* the response of the request handled last
    issued,     \* history: every id ever committed, in commit order
    tracked,    \* history: tracks committed since the table was last empty
    wasReset,   \* history: a reset has committed
    pc,         \* SpecConc: the next statement of the running get_stats
    st          \* SpecConc: the locals of the running get_stats

vars == <<rows, seq, clock, req, resp, issued, tracked, wasReset, pc, st>>

-----------------------------------------------------------------------------
(* Values.  A nullable column or an Optional parameter is <<>> (None/NULL)  *)
(* or <<v>>.  Referrers, paths and addresses are strings; a user agent is   *)
(* a sequence of character codes, so that slicing it is a real operation.   *)

NULL == <<>>
Some(v) == <<v>>

Min(a, b) == IF a <= b THEN a ELSE b

\* the user agent of n characters 1, 2, ..., n
Chars(n) == [i \in 1..n |-> i]

-----------------------------------------------------------------------------
(* Numbers of the program. *)

RECENT_LIMIT == 20
TOP_LIMIT == 10
UA_SLICE == 80
DAILY_DAYS == 30
HOURLY_DAYS == 7
HoursPerDay == 24

(* Bounds of the model. *)

SlotsPerHour == 2      \* instants the clock tells apart inside one hour
MaxRows == 3           \* rows the table holds in Spec, SpecResolve, SpecUnique, SpecDaily
MaxSeq == 4            \* ids handed out in those specifications
MaxRowsRecent == 21    \* rows the table holds in SpecRecent
MaxSeqRecent == 22     \* ids handed out in SpecRecent
MaxVaried == 1         \* rows of SpecRecent whose user agent is not the usual one
MaxSites == 11         \* referring sites of SpecTop
MaxRepeats == 2        \* tracks of SpecTop that repeat a referrer or come direct
MaxRowsConc == 2       \* rows the table holds in SpecConc

-----------------------------------------------------------------------------
(* Time.  datetime.utcnow().isoformat() is fixed-width text, date first,   *)
(* and leaves the fraction out when it is zero.  The model keeps the date   *)
(* (a day number), the hour and the rest of the hour (a slot), and writes   *)
(* the slot only when it is not zero.  SQLite compares the TEXT column as   *)
(* text: field by field, a proper prefix first.                            *)

SlotsPerDay == HoursPerDay * SlotsPerHour

isoformat(t) ==
    LET d == t \div SlotsPerDay
        h == (t % SlotsPerDay) \div SlotsPerHour
        f == t % SlotsPerHour
    IN  IF f = 0 THEN <<d, h>> ELSE <<d, h, f>>

\* strftime("%Y-%m-%d")
strftime_date(t) == t \div SlotsPerDay

timedelta(days) == days * SlotsPerDay

\* a < b for TEXT values
TextLess(a, b) ==
    \E k \in 1..(Min(Len(a), Len(b)) + 1) :
        /\ \A j \in 1..(k - 1) : a[j] = b[j]
        /\ \/ k > Len(a) /\ k <= Len(b)
           \/ k <= Len(a) /\ k <= Len(b) /\ a[k] < b[k]

\* timestamp >= ?
TextGeq(a, b) == ~TextLess(a, b)

\* DATE(timestamp)
DATE(ts) == ts[1]

\* CAST(strftime('%H', timestamp) AS INTEGER)
HourOf(ts) == ts[2]

\* timestamp LIKE '<today_str>%'
LikePrefix(ts, today_str) == ts[1] = today_str

-----------------------------------------------------------------------------
(* The table.  A row is a record of the eight columns; country and         *)
(* metadata are never written by the INSERT and stay NULL.                 *)

\* INSERT as a table without AUTOINCREMENT does it: the largest rowid + 1
InsertMaxRowid(t, s, timestamp, ip, user_agent, referrer, path) ==
    [rows |-> Append(t, [id |-> IF t = <<>> THEN 1 ELSE t[Len(t)].id + 1,
                         timestamp |-> timestamp, ip |-> ip,
                         user_agent |-> user_agent, referrer |-> referrer,
                         path |-> path, country |-> NULL, metadata |-> NULL]),
     seq  |-> IF t = <<>> THEN 1 ELSE t[Len(t)].id + 1]

\* INSERT INTO page_visits (timestamp, ip, user_agent, referrer, path):
\* id INTEGER PRIMARY KEY AUTOINCREMENT takes sqlite_sequence + 1.
INSERT(t, s, timestamp, ip, user_agent, referrer, path) ==
    [rows |-> Append(t, [id |-> s + 1, timestamp |-> timestamp, ip |-> ip,
                         user_agent |-> user_agent, referrer |-> referrer,
                         path |-> path, country |-> NULL, metadata |-> NULL]),
     seq  |-> s + 1]

\* a DELETE whose WHERE clause spares the newest row
DeleteButNewest(t, s) ==
    [rows |-> IF t = <<>> THEN t ELSE <<t[Len(t)]>>, seq |-> s]

\* DELETE FROM page_visits: every row goes, sqlite_sequence stays.
DELETE_ALL(t, s) == [rows |-> <<>>, seq |-> s]

\* the ascending sequence of a finite set of integers
RECURSIVE SortAsc(_)
SortAsc(S) ==
    IF S = {} THEN <<>>
    ELSE LET m == CHOOSE x \in S : \A y \in S : x <= y
         IN  <<m>> \o SortAsc(S \ {m})

-----------------------------------------------------------------------------
(* The seven queries of get_stats, each over the table it is run on. *)

\* SELECT COUNT(*)
total(t) == Len(t)

\* SELECT COUNT(DISTINCT ip): one scan, NULL is no value
RECURSIVE DistinctIps(_, _, _)
DistinctIps(t, i, seen) ==
    IF i > Len(t) THEN seen
    ELSE DistinctIps(t, i + 1,
                     IF t[i].ip = NULL THEN seen ELSE seen \cup {t[i].ip})

\* SELECT COUNT(ip), the DISTINCT forgotten
UniqueCountsEveryIp(t) == Cardinality({i \in DOMAIN t : t[i].ip # NULL})

unique(t) == Cardinality(DistinctIps(t, 1, {}))

\* SELECT COUNT(*) WHERE timestamp LIKE '<today_str>%'
today_count(t, today_str) ==
    Cardinality({i \in DOMAIN t : LikePrefix(t[i].timestamp, today_str)})

\* the query without its WHERE clause
DailyAllRows(t, thirty_days_ago) ==
    LET sel  == DOMAIN t
        days == SortAsc({DATE(t[i].timestamp) : i \in sel})
    IN  [k \in DOMAIN days |->
            [date  |-> days[k],
             count |-> Cardinality({i \in sel : DATE(t[i].timestamp) = days[k]})]]

\* SELECT DATE(timestamp), COUNT(*) WHERE timestamp >= ? GROUP BY day ORDER BY day
daily(t, thirty_days_ago) ==
    LET sel  == {i \in DOMAIN t : TextGeq(t[i].timestamp, thirty_days_ago)}
        days == SortAsc({DATE(t[i].timestamp) : i \in sel})
    IN  [k \in DOMAIN days |->
            [date  |-> days[k],
             count |-> Cardinality({i \in sel : DATE(t[i].timestamp) = days[k]})]]

\* ORDER BY count DESC says nothing about equal counts: the group met first in
\* the table leads, or the one met last.
TieOrders == {"first", "last"}

\* GROUP BY referrer over the selected rows: each referrer with its COUNT(*)
\* and the place of its first row
GroupByReferrer(t, sel) ==
    {[referrer |-> g,
      count    |-> Cardinality({i \in sel : t[i].referrer = g}),
      pos      |-> CHOOSE i \in sel : /\ t[i].referrer = g
                                      /\ \A j \in sel : t[j].referrer = g => i <= j]
     : g \in {t[i].referrer : i \in sel}}

\* ORDER BY count DESC
RECURSIVE OrderByCountDesc(_, _)
OrderByCountDesc(groups, tie) ==
    IF groups = {} THEN <<>>
    ELSE LET Leads(a, b) ==
                 \/ a.count > b.count
                 \/ a.count = b.count /\ (IF tie = "first" THEN a.pos <= b.pos
                                                           ELSE a.pos >= b.pos)
             g == CHOOSE a \in groups : \A b \in groups : Leads(a, b)
         IN  <<[referrer |-> g.referrer, count |-> g.count]>>
                 \o OrderByCountDesc(groups \ {g}, tie)

\* the query without `AND referrer != 'direct'`
ReferrersWithDirect(t, tie) ==
    LET sel == {i \in DOMAIN t : t[i].referrer # NULL}
        all == OrderByCountDesc(GroupByReferrer(t, sel), tie)
    IN  SubSeq(all, 1, Min(TOP_LIMIT, Len(all)))

\* SELECT referrer, COUNT(*) WHERE referrer IS NOT NULL AND referrer != 'direct'
\* GROUP BY referrer ORDER BY count DESC LIMIT 10
referrers(t, tie) ==
    LET sel == {i \in DOMAIN t : t[i].referrer # NULL /\ t[i].referrer # Some("direct")}
        all == OrderByCountDesc(GroupByReferrer(t, sel), tie)
    IN  SubSeq(all, 1, Min(TOP_LIMIT, Len(all)))

\* SELECT CAST(strftime('%H', timestamp) AS INTEGER), COUNT(*) WHERE timestamp >= ?
\* GROUP BY hour ORDER BY hour
hourly(t, seven_days_ago) ==
    LET sel   == {i \in DOMAIN t : TextGeq(t[i].timestamp, seven_days_ago)}
        hours == SortAsc({HourOf(t[i].timestamp) : i \in sel})
    IN  [k \in DOMAIN hours |->
            [hour  |-> hours[k],
             count |-> Cardinality({i \in sel : HourOf(t[i].timestamp) = hours[k]})]]

\* row["user_agent"][:80] if row["user_agent"] else ""
slice_user_agent(user_agent) ==
    IF user_agent = NULL \/ user_agent = Some(<<>>) THEN <<>>
    ELSE SubSeq(user_agent[1], 1, Min(UA_SLICE, Len(user_agent[1])))

\* ORDER BY id ASC LIMIT 20: the oldest rows, oldest first
RecentOldestFirst(t) ==
    [k \in 1..Min(RECENT_LIMIT, Len(t)) |->
        [timestamp  |-> t[k].timestamp,
         ip         |-> t[k].ip,
         user_agent |-> slice_user_agent(t[k].user_agent),
         referrer   |-> t[k].referrer,
         path       |-> t[k].path]]

\* SELECT timestamp, ip, user_agent, referrer, path ORDER BY id DESC LIMIT 20
recent(t) ==
    LET n == Len(t)
    IN  [k \in 1..Min(RECENT_LIMIT, n) |->
            [timestamp  |-> t[n + 1 - k].timestamp,
             ip         |-> t[n + 1 - k].ip,
             user_agent |-> slice_user_agent(t[n + 1 - k].user_agent),
             referrer   |-> t[n + 1 - k].referrer,
             path       |-> t[n + 1 - k].path]]

-----------------------------------------------------------------------------
(* Storage errors.  Nothing in the handlers catches an exception: a        *)
(* statement that raises ends the request, the connection is dropped       *)
(* without commit and SQLite rolls the open transaction back.  `fail`      *)
(* names the statement that raises, "none" when none does.                 *)

TrackFails == {"none", "open", "insert", "commit"}
StatsFails == {"none", "open", "total", "unique", "today", "daily",
               "referrers", "hourly", "recent"}
ResetFails == {"none", "open", "delete", "commit"}

\* a handler that never calls conn.commit()
NeverCommitted(before, staged, fail) == before

\* what the table and sqlite_sequence are once the request is over
Committed(before, staged, fail) == IF fail = "none" THEN staged ELSE before

Failure == [kind |-> "error"]

-----------------------------------------------------------------------------
(* GET /track *)

\* request.client.host if request.client else "unknown"
client_ip(client) == IF client # NULL THEN client[1] ELSE Some("unknown")

\* request.headers.get("user-agent", "")
user_agent(header) == IF header # NULL THEN header ELSE Some(<<>>)

\* `ref if ref is not None else ...`: an empty ref is kept
ReferrerKeepsEmptyRef(ref, referer) ==
    IF ref # NULL THEN ref
    ELSE IF referer # NULL THEN referer ELSE Some("direct")

\* ref or request.headers.get("referer", "direct")
referrer(ref, referer) ==
    IF ref # NULL /\ ref[1] # "" THEN ref
    ELSE IF referer # NULL THEN referer ELSE Some("direct")

\* a beacon that swallows storage errors and acknowledges all the same
TrackResponseTolerant(fail) == [kind |-> "track", status |-> "ok", tracked |-> TRUE]

\* return {"status": "ok", "tracked": True}, reached when nothing raised
track_response(fail) ==
    IF fail = "none" THEN [kind |-> "track", status |-> "ok", tracked |-> TRUE]
    ELSE Failure

track_visit(client, ua_header, ref, referer, path, fail) ==
    LET now    == isoformat(clock)
        staged == INSERT(rows, seq, now, client_ip(client), user_agent(ua_header),
                         referrer(ref, referer), path)
        after  == Committed([rows |-> rows, seq |-> seq], staged, fail)
    IN  /\ rows' = after.rows
        /\ seq' = after.seq
        /\ req' = [op |-> "track", client |-> client, user_agent |-> ua_header,
                   ref |-> ref, referer |-> referer, path |-> path, fail |-> fail]
        /\ resp' = track_response(fail)
        /\ issued' = IF fail = "none" THEN Append(issued, staged.seq) ELSE issued
        /\ tracked' = IF fail = "none" THEN tracked + 1 ELSE tracked
        /\ UNCHANGED <<clock, wasReset, pc, st>>

-----------------------------------------------------------------------------
(* GET /stats *)

\* the returned object
stats_object(c_total, c_unique, c_today, l_daily, l_refs, l_hourly, l_recent) ==
    [kind |-> "stats", status |-> "success",
     stats |-> [total_visits    |-> c_total,
                unique_visitors |-> c_unique,
                today_visits    |-> c_today,
                daily           |-> l_daily,
                top_referrers   |-> l_refs,
                hourly_heatmap  |-> l_hourly,
                recent_visits   |-> l_recent]]

\* return {...}, reached when none of the seven queries raised
stats_response(fail, object) == IF fail = "none" THEN object ELSE Failure

\* now1, now2, now3 are the three datetime.utcnow() readings, in order
get_stats(now1, now2, now3, tie, fail) ==
    LET today_str       == strftime_date(now1)
        thirty_days_ago == isoformat(now2 - timedelta(DAILY_DAYS))
        seven_days_ago  == isoformat(now3 - timedelta(HOURLY_DAYS))
    IN  /\ clock <= now1 /\ now1 <= now2 /\ now2 <= now3
        /\ clock' = now3
        /\ req' = [op |-> "stats", now1 |-> now1, now2 |-> now2, now3 |-> now3,
                   tie |-> tie, fail |-> fail]
        /\ resp' = stats_response(fail,
                       stats_object(total(rows), unique(rows),
                                    today_count(rows, today_str),
                                    daily(rows, thirty_days_ago),
                                    referrers(rows, tie),
                                    hourly(rows, seven_days_ago),
                                    recent(rows)))
        /\ UNCHANGED <<rows, seq, issued, tracked, wasReset, pc, st>>

-----------------------------------------------------------------------------
(* DELETE /reset *)

reset_response(fail) ==
    IF fail = "none"
    THEN [kind |-> "reset", status |-> "success", message |-> "Analytics data cleared"]
    ELSE Failure

reset_analytics(fail) ==
    LET after == Committed([rows |-> rows, seq |-> seq], DELETE_ALL(rows, seq), fail)
    IN  /\ rows' = after.rows
        /\ seq' = after.seq
        /\ req' = [op |-> "reset", fail |-> fail]
        /\ resp' = reset_response(fail)
        /\ tracked' = IF fail = "none" THEN 0 ELSE tracked
        /\ wasReset' = (wasReset \/ fail = "none")
        /\ UNCHANGED <<clock, issued, pc, st>>

-----------------------------------------------------------------------------
(* The clock and the start. *)

\* midnight of the day the service starts on
Start == timedelta(DAILY_DAYS) + timedelta(HOURLY_DAYS)

\* the clock moves on to a later instant of I
Advance(I) ==
    /\ \E t \in I : t > clock /\ clock' = t
    /\ UNCHANGED <<rows, seq, req, resp, issued, tracked, wasReset, pc, st>>

\* init_db on a new file: CREATE TABLE IF NOT EXISTS, no row, no id handed out
init_db ==
    /\ rows = <<>>
    /\ seq = 0
    /\ clock = Start
    /\ req = [op |-> "none"]
    /\ resp = [kind |-> "none"]
    /\ issued = <<>>
    /\ tracked = 0
    /\ wasReset = FALSE
    /\ pc = "idle"
    /\ st = <<>>

Init == init_db

-----------------------------------------------------------------------------
(* Spec: one process, requests one after the other, any statement may      *)
(* raise.                                                                  *)

Hosts == {NULL, Some(Some("10.0.0.1"))}
Instants == {Start, Start + SlotsPerDay}

Track ==
    /\ Len(rows) < MaxRows
    /\ seq < MaxSeq
    /\ \E client \in Hosts, fail \in TrackFails :
           track_visit(client, Some(Chars(2)), NULL, NULL, "/", fail)

Stats == \E tie \in TieOrders, fail \in StatsFails : get_stats(clock, clock, clock, tie, fail)

Reset == \E fail \in ResetFails : reset_analytics(fail)

Tick == Advance(Instants)

Next == Track \/ Stats \/ Reset \/ Tick

Spec == Init /\ [][Next]_vars

-----------------------------------------------------------------------------
(* Properties under Spec. *)

\* C1: with no reset so far, a stats response reports as total_visits the
\* number of track requests that were acknowledged, and the table holds one
\* row for each of them.
TotalCountsTracks ==
    (resp.kind = "stats" /\ ~wasReset) =>
        /\ resp.stats.total_visits = tracked
        /\ Len(rows) = tracked

\* three tracks, no reset, then stats
TotalCountsTracksWitness ==
    /\ resp.kind = "stats" /\ ~wasReset
    /\ tracked = 3 /\ resp.stats.total_visits = 3

\* C2: a stats response that follows a committed reset, with no track
\* committed in between, reports three zero counts and four empty lists.
StatsEmptyAfterReset ==
    (resp.kind = "stats" /\ wasReset /\ tracked = 0) =>
        /\ resp.stats.total_visits = 0
        /\ resp.stats.unique_visitors = 0
        /\ resp.stats.today_visits = 0
        /\ resp.stats.daily = <<>>
        /\ resp.stats.top_referrers = <<>>
        /\ resp.stats.hourly_heatmap = <<>>
        /\ resp.stats.recent_visits = <<>>

\* tracks, a reset, then stats
StatsEmptyAfterResetWitness ==
    /\ resp.kind = "stats" /\ wasReset /\ tracked = 0
    /\ Len(issued) >= 2
    /\ resp.stats.total_visits = 0

\* C8: the ids ever committed are strictly increasing in commit order,
\* deleted records included, and the table holds the newest of them in that
\* order, so id order is insertion order.
IdsNeverReused ==
    /\ \A i, j \in DOMAIN issued : i < j => issued[i] < issued[j]
    /\ Len(rows) <= Len(issued)
    /\ \A k \in DOMAIN rows : rows[k].id = issued[Len(issued) - Len(rows) + k]

\* rows inserted after a reset that deleted earlier ones
IdsNeverReusedWitness ==
    /\ wasReset /\ rows # <<>>
    /\ Len(issued) > Len(rows)
    /\ rows[1].id > issued[1]

\* C9: a track in which opening, inserting or committing raises ends in an
\* error, not in the acknowledgement, and leaves table and id counter as they
\* were; a stats request in which a query raises ends in an error and returns
\* no stats object.
FailuresPropagate ==
    [][/\ (req'.op = "track" /\ req'.fail # "none") =>
              (resp'.kind = "error" /\ rows' = rows /\ seq' = seq)
       /\ (req'.op = "stats" /\ req'.fail # "none") =>
              (resp'.kind = "error" /\ rows' = rows)]_vars

\* a commit that raised on a table with rows
FailuresPropagateWitness ==
    /\ req.op = "track" /\ req.fail = "commit"
    /\ resp.kind = "error"
    /\ rows # <<>>

-----------------------------------------------------------------------------
(* SpecResolve: the ways a track request can name its referrer. *)

RefParams == {NULL, Some(""), Some("x.com"), Some("direct")}
RefererHeaders == {NULL, Some(""), Some("y.com")}

TrackResolve ==
    /\ Len(rows) < MaxRows
    /\ seq < MaxSeq
    /\ \E ref \in RefParams, referer \in RefererHeaders :
           track_visit(NULL, Some(Chars(2)), ref, referer, "/", "none")

StatsNow == \E tie \in TieOrders : get_stats(clock, clock, clock, tie, "none")

NextResolve == TrackResolve \/ StatsNow \/ Reset

SpecResolve == Init /\ [][NextResolve]_vars

RECURSIVE SumCounts(_)
SumCounts(list) ==
    IF list = <<>> THEN 0 ELSE Head(list).count + SumCounts(Tail(list))

\* C5: the row a track appends has as referrer the ref parameter when it is
\* given and not empty, else the referer header when there is one, else
\* "direct"; and the rows stored as "direct" add nothing to top_referrers.
ReferrerResolved ==
    [][/\ (req'.op = "track" /\ Len(rows') = Len(rows) + 1) =>
              LET stored == rows'[Len(rows')].referrer
                  noRef  == req'.ref = NULL \/ req'.ref = Some("")
              IN  /\ ~noRef => stored = req'.ref
                  /\ (noRef /\ req'.referer # NULL) => stored = req'.referer
                  /\ (noRef /\ req'.referer = NULL) => stored = Some("direct")
       /\ resp'.kind = "stats" =>
              /\ \A k \in DOMAIN resp'.stats.top_referrers :
                     resp'.stats.top_referrers[k].referrer # Some("direct")
              /\ SumCounts(resp'.stats.top_referrers)
                     = Cardinality({i \in DOMAIN rows' :
                                        rows'[i].referrer # Some("direct")})]_vars

\* a track with neither ref nor header, stored as "direct"
ReferrerResolvedWitness ==
    /\ req.op = "track" /\ req.ref = NULL /\ req.referer = NULL
    /\ rows # <<>>
    /\ rows[Len(rows)].referrer = Some("direct")

-----------------------------------------------------------------------------
(* SpecUnique: the addresses a track request can come from. *)

\* request.client is None, or carries the host the server hands over: an
\* address or, the ip column being nullable, None
AllHosts == {NULL, Some(NULL), Some(Some("10.0.0.1")), Some(Some("10.0.0.2"))}

Paths == {"/", "/about"}

TrackUnique ==
    /\ Len(rows) < MaxRows
    /\ seq < MaxSeq
    /\ \E client \in AllHosts, path \in Paths :
           track_visit(client, Some(Chars(2)), NULL, NULL, path, "none")

NextUnique == TrackUnique \/ StatsNow \/ Reset

SpecUnique == Init /\ [][NextUnique]_vars

\* the table with its rows in the order p
Permuted(t, p) == [i \in DOMAIN t |-> t[p[i]]]

\* C6: unique_visitors is the number of distinct ip values stored, it is the
\* same for the same rows in any order, and the rows without ip raise it by
\* at most one.
UniqueIsDistinctIps ==
    resp.kind = "stats" =>
        /\ resp.stats.unique_visitors
               = Cardinality({rows[i].ip : i \in DOMAIN rows} \ {NULL})
        /\ \A p \in Permutations(DOMAIN rows) :
               unique(Permuted(rows, p)) = resp.stats.unique_visitors
        /\ resp.stats.unique_visitors
               - unique(SelectSeq(rows, LAMBDA r : r.ip # NULL)) \in {0, 1}

\* one address twice and a row without ip
UniqueIsDistinctIpsWitness ==
    /\ resp.kind = "stats"
    /\ \E i, j, k \in DOMAIN rows :
           /\ i # j /\ rows[i].ip = rows[j].ip /\ rows[i].ip # NULL
           /\ rows[k].ip = NULL
    /\ resp.stats.unique_visitors = 1

-----------------------------------------------------------------------------
(* SpecRecent: a table long enough for LIMIT 20 to cut, with user agents   *)
(* on both sides of the 80 characters.  The usual user agent is short; at  *)
(* most MaxVaried rows of the table carry another one.                     *)

UsualAgent == Some(Chars(2))
OtherAgents == {NULL, Some(Chars(UA_SLICE + 1))}

Varied == Cardinality({i \in DOMAIN rows : rows[i].user_agent # UsualAgent})

TrackRecent ==
    /\ Len(rows) < MaxRowsRecent
    /\ seq < MaxSeqRecent
    /\ \E header \in {UsualAgent} \cup (IF Varied < MaxVaried THEN OtherAgents ELSE {}) :
           track_visit(NULL, header, NULL, NULL, "/", "none")

StatsFirst == get_stats(clock, clock, clock, "first", "none")

Clear == reset_analytics("none")

NextRecent == TrackRecent \/ StatsFirst \/ Clear

SpecRecent == Init /\ [][NextRecent]_vars

\* the position in the table of the row with the k-th largest id
KthNewest(k) ==
    CHOOSE i \in DOMAIN rows :
        Cardinality({j \in DOMAIN rows : rows[j].id > rows[i].id}) = k - 1

\* C3: recent_visits lists the min(20, rows) rows of largest id, largest
\* first, each with its timestamp, ip, referrer and path and with the first
\* 80 characters of its user agent.
RecentIsNewestTwenty ==
    resp.kind = "stats" =>
        LET list == resp.stats.recent_visits
        IN  /\ Len(list) = Min(RECENT_LIMIT, Len(rows))
            /\ \A k \in DOMAIN list :
                   LET row == rows[KthNewest(k)]
                       ua  == IF row.user_agent = NULL THEN <<>> ELSE row.user_agent[1]
                   IN  /\ list[k].timestamp = row.timestamp
                       /\ list[k].ip = row.ip
                       /\ list[k].referrer = row.referrer
                       /\ list[k].path = row.path
                       /\ Len(list[k].user_agent) <= UA_SLICE
                       /\ Len(list[k].user_agent) = Min(UA_SLICE, Len(ua))
                       /\ \A c \in DOMAIN list[k].user_agent :
                              list[k].user_agent[c] = ua[c]

\* 21 rows, the first with a user agent of its own: 20 are listed, not the first
RecentIsNewestTwentyWitness ==
    /\ resp.kind = "stats"
    /\ Len(rows) = RECENT_LIMIT + 1
    /\ rows[1].user_agent = Some(Chars(UA_SLICE + 1))
    /\ Len(resp.stats.recent_visits) = RECENT_LIMIT
    /\ \A k \in DOMAIN resp.stats.recent_visits :
           resp.stats.recent_visits[k].user_agent = Chars(2)

-----------------------------------------------------------------------------
(* SpecTop: more referring sites than LIMIT 10 keeps.  Sites come into the *)
(* table in the order of SiteNames; at most MaxRepeats rows of the table   *)
(* repeat the site that came last or come without a referrer.              *)

SiteNames == <<"a.com", "b.com", "c.com", "d.com", "e.com", "f.com", "g.com",
               "h.com", "i.com", "j.com", "k.com", "l.com", "m.com", "n.com">>

Direct(t) == {i \in DOMAIN t : t[i].referrer = NULL \/ t[i].referrer = Some("direct")}

SitesOf(t) == {t[i].referrer : i \in DOMAIN t \ Direct(t)}

TrackNewSite ==
    /\ Cardinality(SitesOf(rows)) < Min(MaxSites, Len(SiteNames))
    /\ track_visit(NULL, Some(Chars(2)),
                   Some(SiteNames[Cardinality(SitesOf(rows)) + 1]), NULL, "/", "none")

TrackRepeat ==
    /\ Len(rows) - Cardinality(SitesOf(rows)) < MaxRepeats
    /\ \E ref \in {NULL} \cup {Some(SiteNames[k]) : k \in {Cardinality(SitesOf(rows))} \ {0}} :
           track_visit(NULL, Some(Chars(2)), ref, NULL, "/", "none")

NextTop == TrackNewSite \/ TrackRepeat \/ StatsNow

SpecTop == Init /\ [][NextTop]_vars

\* the rows of the spec's example, as six tracks store them
ExampleTable ==
    LET refs == <<Some("direct"), Some("direct"), Some("x.com"),
                  Some("x.com"), Some("x.com"), Some("y.com")>>
    IN  [i \in 1..6 |->
            [id |-> i, timestamp |-> isoformat(Start), ip |-> Some("unknown"),
             user_agent |-> Some(<<>>), referrer |-> refs[i], path |-> "/",
             country |-> NULL, metadata |-> NULL]]

\* C4: top_referrers has no NULL and no "direct" entry, lists each referrer
\* once with the number of rows that carry it, in non-increasing count order,
\* keeps min(10, referrers) entries and leaves out none with a larger count
\* than one it lists; the spec's six rows give [x.com: 3, y.com: 1].
TopReferrersRanked ==
    /\ resp.kind = "stats" =>
        LET list     == resp.stats.top_referrers
            Count(g) == Cardinality({i \in DOMAIN rows : rows[i].referrer = g})
            listed   == {list[k].referrer : k \in DOMAIN list}
        IN  /\ Len(list) = Min(TOP_LIMIT, Cardinality(SitesOf(rows)))
            /\ Len(list) <= TOP_LIMIT
            /\ \A k \in DOMAIN list :
                   /\ list[k].referrer # NULL
                   /\ list[k].referrer # Some("direct")
                   /\ list[k].count = Count(list[k].referrer)
            /\ \A j, k \in DOMAIN list :
                   j < k => /\ list[j].count >= list[k].count
                            /\ list[j].referrer # list[k].referrer
            /\ \A g \in SitesOf(rows) \ listed :
                   \A k \in DOMAIN list : Count(g) <= list[k].count
    /\ \A tie \in TieOrders :
           referrers(ExampleTable, tie)
               = <<[referrer |-> Some("x.com"), count |-> 3],
                   [referrer |-> Some("y.com"), count |-> 1]>>

\* eleven sites, the last one tracked twice, and a direct visit: ten are
\* listed, the last site first
TopReferrersRankedWitness ==
    /\ resp.kind = "stats"
    /\ Cardinality(SitesOf(rows)) = TOP_LIMIT + 1
    /\ Direct(rows) # {}
    /\ Len(resp.stats.top_referrers) = TOP_LIMIT
    /\ resp.stats.top_referrers[1] = [referrer |-> Some(SiteNames[TOP_LIMIT + 1]), count |-> 2]

-----------------------------------------------------------------------------
(* SpecDaily: rows and requests on both sides of the thirty days.  The     *)
(* clock may move by a slot between two readings of one stats request.     *)

DailyInstants ==
    {Start, Start + 1, Start + SlotsPerHour, Start + timedelta(1),
     Start + timedelta(DAILY_DAYS), Start + timedelta(DAILY_DAYS) + 1,
     Start + timedelta(DAILY_DAYS + 1)}

TrackDaily ==
    /\ Len(rows) < MaxRows
    /\ seq < MaxSeq
    /\ track_visit(NULL, Some(Chars(2)), NULL, NULL, "/", "none")

StatsDaily ==
    \E now2, now3 \in DailyInstants :
        /\ now2 - clock <= 1
        /\ now3 - now2 <= 1
        /\ get_stats(clock, now2, now3, "first", "none")

TickDaily == Advance(DailyInstants)

NextDaily == TrackDaily \/ StatsDaily \/ TickDaily \/ Clear

SpecDaily == Init /\ [][NextDaily]_vars

\* the instant a stored timestamp was written at
TimeOf(ts) ==
    ts[1] * SlotsPerDay + ts[2] * SlotsPerHour + (IF Len(ts) = 3 THEN ts[3] ELSE 0)

\* the daily list names dates of the window only, each once, in ascending order
DailyDatesInWindow ==
    LET list == resp.stats.daily
    IN  /\ \A k \in DOMAIN list :
               /\ list[k].date >= strftime_date(req.now2 - timedelta(DAILY_DAYS))
               /\ list[k].date <= strftime_date(req.now2)
               /\ list[k].count > 0
        /\ \A j, k \in DOMAIN list : j < k => list[j].date < list[k].date

\* C7 as stated: the daily list names dates of [now - 30 days, now] only, each
\* once, ascending, none with count zero, and the count of a listed date is
\* the number of stored rows written on that date.
DailyCountsWholeDate ==
    resp.kind = "stats" =>
        /\ DailyDatesInWindow
        /\ \A k \in DOMAIN resp.stats.daily :
               resp.stats.daily[k].count
                   = Cardinality({i \in DOMAIN rows :
                                      DATE(rows[i].timestamp) = resp.stats.daily[k].date})

\* C7, amended: the daily list names dates of [now - 30 days, now] only, each
\* once, ascending, none with count zero, and the count of a listed date is
\* the number of stored rows written on that date at or after now - 30 days.
DailyCountsWindowRows ==
    resp.kind = "stats" =>
        /\ DailyDatesInWindow
        /\ \A k \in DOMAIN resp.stats.daily :
               resp.stats.daily[k].count
                   = Cardinality({i \in DOMAIN rows :
                        /\ DATE(rows[i].timestamp) = resp.stats.daily[k].date
                        /\ TimeOf(rows[i].timestamp) >= req.now2 - timedelta(DAILY_DAYS)})

\* two rows of one date, thirty days back: one before the time of day of the
\* request and left out, one after it and counted
DailyCountsWindowRowsWitness ==
    /\ resp.kind = "stats"
    /\ \E i, j \in DOMAIN rows :
           /\ DATE(rows[i].timestamp) = DATE(rows[j].timestamp)
           /\ TimeOf(rows[i].timestamp) < req.now2 - timedelta(DAILY_DAYS)
           /\ TimeOf(rows[j].timestamp) >= req.now2 - timedelta(DAILY_DAYS)
    /\ Len(resp.stats.daily) = 1
    /\ resp.stats.daily[1].count = 1

-----------------------------------------------------------------------------
(* SpecConc: several processes on one file.  sqlite3 runs each SELECT of   *)
(* get_stats in autocommit, a read transaction of its own, and WAL lets    *)
(* the writers of other processes commit between two of them.  The stats   *)
(* request goes statement by statement; track and reset requests of other  *)
(* processes, each one transaction, and the clock go in between.           *)

\* the local `name` of the running request gets `value`; `next` is the
\* statement after this one
Assign(at, name, value, next) ==
    /\ pc = at
    /\ st' = (name :> value) @@ st
    /\ pc' = next
    /\ UNCHANGED <<rows, seq, clock, req, resp, issued, tracked, wasReset>>

\* conn = get_db()
stats_open ==
    /\ pc = "idle"
    /\ st' = <<>>
    /\ pc' = "total"
    /\ UNCHANGED <<rows, seq, clock, req, resp, issued, tracked, wasReset>>

select_total == Assign("total", "total", total(rows), "unique")

select_unique == Assign("unique", "unique", unique(rows), "today")

select_today ==
    Assign("today", "today_count", today_count(rows, strftime_date(clock)), "daily")

select_daily ==
    Assign("daily", "daily",
           daily(rows, isoformat(clock - timedelta(DAILY_DAYS))), "referrers")

select_referrers ==
    \E tie \in TieOrders : Assign("referrers", "referrers", referrers(rows, tie), "hourly")

select_hourly ==
    Assign("hourly", "hourly",
           hourly(rows, isoformat(clock - timedelta(HOURLY_DAYS))), "recent")

select_recent == Assign("recent", "recent", recent(rows), "return")

\* conn.close() and the return
stats_return ==
    /\ pc = "return"
    /\ resp' = stats_object(st["total"], st["unique"], st["today_count"], st["daily"],
                            st["referrers"], st["hourly"], st["recent"])
    /\ req' = [op |-> "stats"]
    /\ pc' = "idle"
    /\ st' = <<>>
    /\ UNCHANGED <<rows, seq, clock, issued, tracked, wasReset>>

ConcInstants == {Start, Start + timedelta(1)}

TrackConc ==
    /\ Len(rows) < MaxRowsConc
    /\ seq < MaxRowsConc
    /\ \E client \in Hosts : track_visit(client, Some(Chars(2)), NULL, NULL, "/", "none")

TickConc == Advance(ConcInstants)

NextConc ==
    \/ stats_open \/ select_total \/ select_unique \/ select_today \/ select_daily
    \/ select_referrers \/ select_hourly \/ select_recent \/ stats_return
    \/ TrackConc \/ Clear \/ TickConc

SpecConc == Init /\ [][NextConc]_vars

\* C10: every stats response is the picture of one state of the table: it
\* lists min(20, total_visits) recent visits, and unique_visitors,
\* today_visits and the sum of the daily counts are at most total_visits.
StatsOfOneState ==
    resp.kind = "stats" =>
        /\ Len(resp.stats.recent_visits) = Min(RECENT_LIMIT, resp.stats.total_visits)
        /\ resp.stats.unique_visitors <= resp.stats.total_visits
        /\ resp.stats.today_visits <= resp.stats.total_visits
        /\ SumCounts(resp.stats.daily) <= resp.stats.total_visits

====
